---- MODULE Spec2Model ----
(***************************************************************************)
(* FCApy: the interval pattern structure (fcapy/mvcontext/                 *)
(* pattern_structure.py), the multi-valued context (fcapy/mvcontext/       *)
(* mvcontext.py) and the decision lattice predictors (fcapy/ml/            *)
(* decision_lattice.py).                                                   *)
(*                                                                         *)
(* Four specifications share the module:                                  *)
(*   SpecPS  one IntervalPS object and calls of intention_i/extension_i;   *)
(*   SpecGen calls of description_to_generators/generators_to_description; *)
(*   SpecMV  construction of an MVContext and calls of extension/intention;*)
(*   SpecDL  a DecisionLatticeClassifier or DecisionLatticeRegressor:      *)
(*           fit, predict, predict_proba.                                  *)
(*                                                                         *)
(* Python values are encoded as follows.                                   *)
(*   - A number is an integer.  -math.inf and math.inf are the integers    *)
(*     NegInf and PosInf, strictly below and above every raw value; the    *)
(*     code only compares numbers and takes max/min, so the order is all   *)
(*     that matters.                                                       *)
(*   - An interval description is a record: None is [kind |-> "none"],     *)
(*     the number p is [kind |-> "point"], the tuple (lo, hi) is           *)
(*     [kind |-> "range"].  The point 3 and the tuple (3, 3) are           *)
(*     different records, as 3 != (3, 3) in Python.                        *)
(*   - A list or tuple is a sequence; Python's index i is position i + 1.  *)
(*   - A raised exception is a record [exc |-> <type>, val |-> ...].       *)
(***************************************************************************)
EXTENDS Integers, Sequences, FiniteSets, TLC

VARIABLES
    \* ---- SpecPS: an IntervalPS and its last call
    data,            \* AbstractPS._data
    call,            \* name of the last operator called ("" before any call)
    from,            \* where the last call's argument came from: "caller",
                     \* or the operator whose return value was passed on
    object_indexes,  \* argument of the last intention_i call
    description,     \* the description passed to the last call (None if none)
    result,          \* the description the last call returned (None if none)
    g_is,            \* return value of the last extension_i call
    generators,      \* generators: argument or return value of the last call
    exc,             \* exception raised by the last call ("" if none)
    \* ---- SpecMV: an MVContext
    ctx,             \* the constructed MVContext, or the construction error
    mv_call,         \* last MVContext method called, its argument and result
    \* ---- SpecDL: a DecisionLatticePredictor
    model,           \* "Classifier" or "Regressor"
    lattice,         \* self._lattice.concepts: sequence of [extent_i, measures]
    built,           \* the measures the Lattice Builder gave each concept
    class_names,     \* DecisionLatticeClassifier._class_names
    Y,               \* the labels given to the last fit
    fitted,          \* whether fit has completed
    pred             \* last predict / predict_proba call: its trace and outcome

vars == <<data, call, from, object_indexes, description, result, g_is,
          generators, exc, ctx, mv_call, model, lattice, built, class_names, Y, fitted, pred>>

psVars == <<data, call, from, object_indexes, description, result, g_is,
           generators, exc>>
mvVars == <<ctx, mv_call>>
dlVars == <<model, lattice, built, class_names, Y, fitted, pred>>

----------------------------------------------------------------------------
(* Bounds *)

MaxVal == 2     \* raw attribute values are 0..MaxVal
MaxObjs == 3    \* a pattern structure holds 1..MaxObjs objects
MaxIdx == 3     \* object_indexes has at most MaxIdx entries
MaxGens == 2    \* a caller passes at most MaxGens generators

Values == 0..MaxVal
NegInf == -1
PosInf == MaxVal + 1
Bounds == Values \cup {NegInf, PosInf}

----------------------------------------------------------------------------
(* Generic helpers *)

Range(s) == {s[k] : k \in 1..Len(s)}

SeqsUpTo(S, lo, hi) == UNION {[1..k -> S] : k \in lo..hi}

Item(s, i) == s[i + 1]      \* Python s[i], 0 <= i < len(s)

Max(S) == CHOOSE x \in S : \A y \in S : y <= x
Min(S) == CHOOSE x \in S : \A y \in S : x <= y

Ok(v) == [exc |-> "", val |-> v]
Raise(e, v) == [exc |-> e, val |-> v]

----------------------------------------------------------------------------
(* Interval descriptions *)

None == [kind |-> "none", lo |-> 0, hi |-> 0]
Point(p) == [kind |-> "point", lo |-> p, hi |-> p]
Tuple(a, b) == [kind |-> "range", lo |-> a, hi |-> b]

\* descriptions a caller may pass: None, a number, or any 2-tuple of bounds
AnyDescriptions ==
    {None} \cup {Point(p) : p \in Bounds}
           \cup {Tuple(a, b) : a \in Bounds, b \in Bounds}

\* interval descriptions: a point, or a range (min, max) with min <= max
IntervalDescriptions ==
    {d \in AnyDescriptions : d.kind # "none" /\ d.lo <= d.hi}

----------------------------------------------------------------------------
(* IntervalPS *)

\* the loop of intention_i: running minimum and maximum over object_indexes[1:]
RECURSIVE MinMaxScan(_, _, _, _)
MinMaxScan(data_, idxs, min_, max_) ==
    IF Len(idxs) = 0 THEN [min |-> min_, max |-> max_]
    ELSE LET v == Item(data_, Head(idxs))
         IN MinMaxScan(data_, Tail(idxs),
                       IF v < min_ THEN v ELSE min_,
                       IF v > max_ THEN v ELSE max_)

intention_i(data_, idxs) ==
    IF Len(idxs) = 0 THEN None
    ELSE LET first == Item(data_, idxs[1])
             mm == MinMaxScan(data_, Tail(idxs), first, first)
         IN IF mm.min = mm.max THEN Point(mm.min) ELSE Tuple(mm.min, mm.max)

\* [g_i for g_i, v in enumerate(data) if cond(v)], built from the last index down
RECURSIVE Indexes(_, _, _, _)
Indexes(data_, n, min_, max_) ==
    IF n = 0 THEN <<>>
    ELSE LET rest == Indexes(data_, n - 1, min_, max_)
         IN IF min_ <= data_[n] /\ data_[n] <= max_
            THEN Append(rest, n - 1) ELSE rest

RECURSIVE IndexesStrict(_, _, _, _)
IndexesStrict(data_, n, min_, max_) ==
    IF n = 0 THEN <<>>
    ELSE LET rest == IndexesStrict(data_, n - 1, min_, max_)
         IN IF min_ < data_[n] /\ data_[n] < max_
            THEN Append(rest, n - 1) ELSE rest

extension_i_strict(data_, d) ==
    IF d.kind = "none" THEN <<>>
    ELSE IndexesStrict(data_, Len(data_), d.lo, d.hi)

extension_i(data_, d) ==
    IF d.kind = "none" THEN <<>>
    ELSE Indexes(data_, Len(data_), d.lo, d.hi)

description_to_generators_swapped(d) ==
    << Tuple(NegInf, d.lo), Tuple(d.hi, PosInf) >>

\* a number d becomes (d, d); Point(d) already carries lo = hi = d
description_to_generators(d) ==
    << Tuple(NegInf, d.hi), Tuple(d.lo, PosInf) >>

generators_to_description_noAssert(gens) ==
    LET lows == {gens[k].lo : k \in 1..Len(gens)}
        highs == {gens[k].hi : k \in 1..Len(gens)}
        lo == Max(lows)
        hi == Min(highs)
    IN IF lo = hi THEN Ok(Point(lo)) ELSE Ok(Tuple(lo, hi))

\* each generator is read as a tuple (a number gen as (gen, gen)); zip(*...)
\* gives the list of lower bounds and the list of upper bounds
generators_to_description(gens) ==
    LET lows == {gens[k].lo : k \in 1..Len(gens)}
        highs == {gens[k].hi : k \in 1..Len(gens)}
        lo == Max(lows)
        hi == Min(highs)
    IN IF ~(lo <= hi) THEN Raise("AssertionError", None)
       ELSE IF lo = hi THEN Ok(Point(lo))
       ELSE Ok(Tuple(lo, hi))

----------------------------------------------------------------------------
(* SpecPS: calls of intention_i and extension_i on one IntervalPS.  The
   operators keep no state between calls, so a behaviour is one call of the
   caller's, followed at most by one call on its return value. *)

\* IntervalPS(data): AbstractPS.__init__; no call made yet, no MVContext and
\* no predictor
InitPS ==
    /\ data \in SeqsUpTo(Values, 1, MaxObjs)
    /\ call = ""
    /\ from = "caller"
    /\ object_indexes = <<>>
    /\ description = None
    /\ result = None
    /\ g_is = <<>>
    /\ generators = <<>>
    /\ exc = ""
    /\ ctx = [status |-> "none"]
    /\ mv_call = [op |-> ""]
    /\ model = ""
    /\ lattice = <<>>
    /\ built = <<>>
    /\ class_names = <<>>
    /\ Y = <<>>
    /\ fitted = FALSE
    /\ pred = [op |-> ""]

\* ps.intention_i(object_indexes), every index valid
IntentionI ==
    /\ call = ""
    /\ \E idxs \in SeqsUpTo(0..(Len(data) - 1), 0, MaxIdx) :
        /\ call' = "intention_i"
        /\ from' = "caller"
        /\ object_indexes' = idxs
        /\ description' = None
        /\ result' = intention_i(data, idxs)
        /\ g_is' = <<>>
        /\ UNCHANGED <<data, generators, exc, mvVars, dlVars>>

\* ps.extension_i(description) on a description of the caller's ...
ExtensionI ==
    /\ call = ""
    /\ \E d \in AnyDescriptions :
        /\ call' = "extension_i"
        /\ from' = "caller"
        /\ object_indexes' = <<>>
        /\ description' = d
        /\ result' = None
        /\ g_is' = extension_i(data, d)
        /\ UNCHANGED <<data, generators, exc, mvVars, dlVars>>

\* ... or ps.extension_i(ps.intention_i(object_indexes))
ExtensionIOfIntention ==
    /\ call = "intention_i"
    /\ call' = "extension_i"
    /\ from' = "intention_i"
    /\ description' = result
    /\ g_is' = extension_i(data, result)
    /\ UNCHANGED <<data, object_indexes, result, generators, exc, mvVars, dlVars>>

PsNext ==
    \/ IntentionI
    \/ ExtensionI
    \/ ExtensionIOfIntention

----------------------------------------------------------------------------
(* SpecGen: calls of description_to_generators and generators_to_description.
   Neither reads self._data, so the pattern structure is IntervalPS([]). *)

InitGen ==
    /\ data = <<>>
    /\ call = ""
    /\ from = "caller"
    /\ object_indexes = <<>>
    /\ description = None
    /\ result = None
    /\ g_is = <<>>
    /\ generators = <<>>
    /\ exc = ""
    /\ ctx = [status |-> "none"]
    /\ mv_call = [op |-> ""]
    /\ model = ""
    /\ lattice = <<>>
    /\ built = <<>>
    /\ class_names = <<>>
    /\ Y = <<>>
    /\ fitted = FALSE
    /\ pred = [op |-> ""]

\* ps.description_to_generators(description) on an interval description
DescriptionToGenerators ==
    /\ call = ""
    /\ \E d \in IntervalDescriptions :
        /\ call' = "description_to_generators"
        /\ from' = "caller"
        /\ description' = d
        /\ result' = None
        /\ generators' = description_to_generators(d)
        /\ exc' = ""
        /\ UNCHANGED <<data, object_indexes, g_is, mvVars, dlVars>>

\* ps.generators_to_description(generators) on the caller's generators ...
GeneratorsToDescription ==
    /\ call = ""
    /\ \E gens \in SeqsUpTo(AnyDescriptions \ {None}, 1, MaxGens) :
        LET r == generators_to_description(gens)
        IN /\ call' = "generators_to_description"
           /\ from' = "caller"
           /\ description' = None
           /\ result' = r.val
           /\ generators' = gens
           /\ exc' = r.exc
           /\ UNCHANGED <<data, object_indexes, g_is, mvVars, dlVars>>

\* ... or ps.generators_to_description(ps.description_to_generators(description))
GeneratorsToDescriptionOfGenerators ==
    /\ call = "description_to_generators"
    /\ LET r == generators_to_description(generators)
       IN /\ call' = "generators_to_description"
          /\ from' = "description_to_generators"
          /\ result' = r.val
          /\ exc' = r.exc
          /\ UNCHANGED <<data, object_indexes, g_is, description, generators,
                       mvVars, dlVars>>

GenNext ==
    \/ DescriptionToGenerators
    \/ GeneratorsToDescription
    \/ GeneratorsToDescriptionOfGenerators

----------------------------------------------------------------------------
(* MVContext *)

MaxRows == 2    \* data has 1..MaxRows rows (objects)
MaxCols == 2    \* data has 1..MaxCols columns (attributes)
MvMaxVal == 1   \* the values of data are 0..MvMaxVal

\* A name is <<type, text>>: the str "a" is <<"str", "a">>, any other value
\* <<"int", text>>.
Str(t) == <<"str", t>>
NonStr(t) == <<"int", t>>
IsStr(name) == name[1] = "str"

\* the names a caller may pass
CallerNames == {Str("a"), Str("b"), NonStr("7")}

\* an optional list of names: None, or a list
NoNames == [none |-> TRUE, names |-> <<>>]
Names(ns) == [none |-> FALSE, names |-> ns]

\* A key of pattern_types is a str or a tuple of strs: [tuple, names].
StrKey(name) == [tuple |-> FALSE, names |-> <<name>>]
TupleKey(ns) == [tuple |-> TRUE, names |-> ns]

\* pattern_types: None, or a dict (its keys in insertion order), every value
\* being the class IntervalPS
NoTypes == [none |-> TRUE, keys |-> <<>>]
Types(ks) == [none |-> FALSE, keys |-> ks]

CallerKeys ==
    {StrKey(Str(t)) : t \in {"a", "b", "0", "1"}}
        \cup {TupleKey(<<Str("a"), Str("b")>>)}

CallerTypes ==
    {NoTypes} \cup
    {Types(ks) : ks \in {s \in SeqsUpTo(CallerKeys, 0, MaxCols) :
                            \A i, j \in 1..Len(s) : i # j => s[i] # s[j]}}

\* [str(idx) for idx in range(n)]
DefaultNames(n) == [k \in 1..n |-> Str(ToString(k - 1))]

\* MVContext.object_names.setter / attribute_names.setter (the same code but for
\* the count compared with)
NamesSetter(value, n) ==
    IF value.none THEN Ok(DefaultNames(n))
    ELSE IF Len(value.names) # n THEN Raise("AssertionError", <<>>)
    ELSE IF ~(\A k \in 1..Len(value.names) : IsStr(value.names[k]))
         THEN Raise("AssertionError", <<>>)
    ELSE Ok(value.names)

\* names_to_indexes_map = {m: m_i for m_i, m in enumerate(attribute_names)}:
\* a later duplicate overwrites an earlier one
NamesToIndexes(attribute_names) ==
    [m \in Range(attribute_names) |->
        Max({k \in 1..Len(attribute_names) : attribute_names[k] = m}) - 1]

\* the loop of assemble_pattern_structures over pattern_types.items()
RECURSIVE AssembleLoop(_, _, _, _)
AssembleLoop(data_, keys, map, acc) ==
    IF Len(keys) = 0 THEN Ok(acc)
    ELSE LET key == Head(keys)
         IN IF key.tuple \/ key.names[1] \notin DOMAIN map
            THEN Raise("KeyError", <<>>)
            ELSE LET m_i == map[key.names[1]]
                     ps_data == [g \in 1..Len(data_) |-> Item(data_[g], m_i)]
                     ps == [name |-> key.names[1], data |-> ps_data]
                 IN AssembleLoop(data_, Tail(keys), map, Append(acc, ps))

\* MVContext.assemble_pattern_structures, data not None
assemble_pattern_structures(attribute_names, data_, pattern_types) ==
    LET defined_patterns ==
            IF pattern_types.none THEN {}
            ELSE UNION {Range(pattern_types.keys[k].names) :
                            k \in 1..Len(pattern_types.keys)}
        missed_patterns == Range(attribute_names) \ defined_patterns
    IN IF missed_patterns # {} THEN Raise("AssertionError", <<>>)
       ELSE AssembleLoop(data_, pattern_types.keys,
                         NamesToIndexes(attribute_names), <<>>)

\* MVContext.__init__(data, pattern_types, object_names, attribute_names),
\* data not None: the constructed object, or the exception raised
MVContext(data_, pattern_types, object_names, attribute_names) ==
    LET n == Len(data_)
        m == Len(data_[1])
        args == [n |-> n, m |-> m, object_names |-> object_names,
                 attribute_names |-> attribute_names,
                 pattern_types |-> pattern_types]
        o == NamesSetter(object_names, n)
        a == NamesSetter(attribute_names, m)
        failed(e, at) == [status |-> "error", exc |-> e, at |-> at, args |-> args]
    IN IF o.exc # "" THEN failed(o.exc, "object_names")
       ELSE IF a.exc # "" THEN failed(a.exc, "attribute_names")
       ELSE LET ps == assemble_pattern_structures(a.val, data_, pattern_types)
            IN IF ps.exc # "" THEN failed(ps.exc, "assemble_pattern_structures")
               ELSE [status |-> "ok",
                     n_objects |-> n,
                     n_attributes |-> m,
                     object_names |-> o.val,
                     attribute_names |-> a.val,
                     pattern_structures |-> ps.val,
                     args |-> args]

\* sorted(extent) for a set of integers
RECURSIVE Sorted(_)
Sorted(S) ==
    IF S = {} THEN <<>>
    ELSE LET x == Min(S) IN <<x>> \o Sorted(S \ {x})

\* MVContext.extension_i: descriptions_i maps indexes of pattern structures to
\* descriptions
MVContext_extension_i(c, descriptions_i) ==
    Sorted({g_i \in 0..(c.n_objects - 1) :
        \A ps_i \in DOMAIN descriptions_i :
            g_i \in Range(extension_i(c.pattern_structures[ps_i + 1].data,
                                      descriptions_i[ps_i]))})

\* ps_names_map = {ps.name: ps_i for ps_i, ps in enumerate(pattern_structures)}
PsNamesMap(c) ==
    [name \in {c.pattern_structures[k].name : k \in 1..Len(c.pattern_structures)} |->
        Max({k \in 1..Len(c.pattern_structures) :
                c.pattern_structures[k].name = name}) - 1]

\* MVContext.extension: descriptions maps names of pattern structures to
\* descriptions
MVContext_extension(c, descriptions) ==
    LET ps_names_map == PsNamesMap(c)
        idx == {ps_names_map[name] : name \in DOMAIN descriptions}
        descriptions_i ==
            [ps_i \in idx |->
                descriptions[CHOOSE name \in DOMAIN descriptions :
                                ps_names_map[name] = ps_i]]
        ext == MVContext_extension_i(c, descriptions_i)
    IN [k \in 1..Len(ext) |-> Item(c.object_names, ext[k])]

\* MVContext.intention_i
MVContext_intention_i(c, idxs) ==
    [ps_i \in 0..(Len(c.pattern_structures) - 1) |->
        intention_i(c.pattern_structures[ps_i + 1].data, idxs)]

\* MVContext.intention: objects is a set of object names
MVContext_intention(c, objects) ==
    LET idxs == Sorted({g_i \in 0..(c.n_objects - 1) :
                            Item(c.object_names, g_i) \in objects})
        descriptions_i == MVContext_intention_i(c, idxs)
    IN [name \in DOMAIN PsNamesMap(c) |-> descriptions_i[PsNamesMap(c)[name]]]

----------------------------------------------------------------------------
(* SpecMV: construction of one MVContext, then a call of extension or of
   intention; neither changes the context. *)

MvValues == 0..MvMaxVal

\* descriptions a caller passes to MVContext.extension
MvDescriptions ==
    {None} \cup {Point(p) : p \in MvValues}
           \cup {Tuple(a, b) : a \in MvValues, b \in MvValues}

\* no MVContext has been constructed yet; no pattern structure of its own and
\* no predictor
InitMV ==
    /\ data = <<>>
    /\ call = ""
    /\ from = "caller"
    /\ object_indexes = <<>>
    /\ description = None
    /\ result = None
    /\ g_is = <<>>
    /\ generators = <<>>
    /\ exc = ""
    /\ ctx = [status |-> "none"]
    /\ mv_call = [op |-> ""]
    /\ model = ""
    /\ lattice = <<>>
    /\ built = <<>>
    /\ class_names = <<>>
    /\ Y = <<>>
    /\ fitted = FALSE
    /\ pred = [op |-> ""]

\* MVContext(data, pattern_types, object_names, attribute_names)
Construct ==
    /\ ctx.status = "none"
    /\ \E n \in 1..MaxRows, m \in 1..MaxCols :
       \E data_ \in [1..n -> [1..m -> MvValues]],
          object_names \in {NoNames} \cup
                {Names(ns) : ns \in SeqsUpTo(CallerNames, 1, MaxRows)},
          attribute_names \in {NoNames} \cup
                {Names(ns) : ns \in SeqsUpTo(CallerNames, 1, MaxCols)},
          pattern_types \in CallerTypes :
            ctx' = MVContext(data_, pattern_types, object_names, attribute_names)
    /\ UNCHANGED <<mv_call, psVars, dlVars>>

\* context.extension(descriptions), every key the name of a pattern structure
Extension ==
    /\ ctx.status = "ok"
    /\ mv_call.op = ""
    /\ \E keys \in SUBSET (DOMAIN PsNamesMap(ctx)) :
       \E descriptions \in [keys -> MvDescriptions] :
            mv_call' = [op |-> "extension",
                        descriptions |-> descriptions,
                        ret |-> MVContext_extension(ctx, descriptions)]
    /\ UNCHANGED <<ctx, psVars, dlVars>>

\* context.intention(objects)
Intention ==
    /\ ctx.status = "ok"
    /\ mv_call.op = ""
    /\ \E objects \in SUBSET Range(ctx.object_names) :
            mv_call' = [op |-> "intention",
                        objects |-> objects,
                        ret |-> MVContext_intention(ctx, objects)]
    /\ UNCHANGED <<ctx, psVars, dlVars>>

MvNext ==
    \/ Construct
    \/ Extension
    \/ Intention

----------------------------------------------------------------------------
(* Values of the decision lattice predictors *)

MaxN == 2          \* fit is given a context of 1..MaxN objects
MaxConcepts == 2   \* the Lattice Builder returns 1..MaxConcepts concepts
MaxY == 1          \* the regressor's labels are 0..MaxY
MaxX == 1          \* predict is given a context of 1..MaxX objects

\* the class labels, in sorted() order
ClassOrder == <<"A", "B", "C">>

\* Python's None, and a value that is not None
PyNone == [none |-> TRUE]
Some(v) == [none |-> FALSE, val |-> v]

\* A float is modelled by the exact fraction it rounds: [num, den] in lowest
\* terms, den > 0.
RECURSIVE GCD(_, _)
GCD(a, b) == IF b = 0 THEN a ELSE GCD(b, a % b)

Rat(n, d) == LET g == GCD(n, d) IN [num |-> n \div g, den |-> d \div g]
RatAdd(a, b) == Rat(a.num * b.den + b.num * a.den, a.den * b.den)
RatLeq(a, b) == a.num * b.den <= b.num * a.den

\* sum(xs) / k for a list xs of fractions
RECURSIVE RatSum(_)
RatSum(xs) == IF Len(xs) = 0 THEN Rat(0, 1) ELSE RatAdd(Head(xs), RatSum(Tail(xs)))

RatDiv(a, k) == Rat(a.num, a.den * k)

\* max(xs) for a non-empty list xs of fractions
RatMax(xs) ==
    LET k == CHOOSE i \in 1..Len(xs) : \A j \in 1..Len(xs) : RatLeq(xs[j], xs[i])
    IN xs[k]

\* a dict: a function from its keys
EmptyDict == [k \in {} |-> 0]

----------------------------------------------------------------------------
(* The Lattice Builder and the Tracer (fcapy.lattice) *)

\* an extent: the ascending sequence of the object indexes in S
Extents(n) == {Sorted(S) : S \in SUBSET (0..(n - 1))}

RECURSIVE ExtentCode(_)
ExtentCode(e) == IF Len(e) = 0 THEN 0 ELSE 2 ^ Head(e) + ExtentCode(Tail(e))

\* the measures the Builder itself attaches to the concepts of one lattice:
\* none, or its own measure
BuilderMeasures == {EmptyDict, [k \in {"LStab"} |-> 1]}

\* ConceptLattice.from_context(X, algo, L_max).concepts for a context of n
\* objects: concepts of pairwise different extents, the top concept (every
\* object, the extent of the empty description) among them.  The predictor
\* addresses concepts by index only, so one order per set of extents is taken.
FromContext(n) ==
    {[c \in 1..Len(es) |-> [extent_i |-> es[c], measures |-> ms]] :
        es \in {s \in SeqsUpTo(Extents(n), 1, MaxConcepts) :
                  /\ Len(s[1]) = n
                  /\ \A i, j \in 1..Len(s) :
                        i < j => ExtentCode(s[i]) > ExtentCode(s[j])},
        ms \in BuilderMeasures}

\* lattice.trace_context(X, use_object_indices=True)[0] for a context of nX
\* objects: per object the indexes of its bottom concepts, a set of concepts
\* of the fitted lattice listed in ascending order
TraceContext(nConcepts, nX) ==
    [0..(nX - 1) -> {Sorted(S) : S \in SUBSET (0..(nConcepts - 1))}]

----------------------------------------------------------------------------
(* DecisionLatticePredictor, DecisionLatticeClassifier, DecisionLatticeRegressor *)

\* dict(metrics, **c.measures): the keys of both, c.measures winning
MergeMeasures_metricsOnly(metrics, measures) == metrics

MergeMeasures(metrics, measures) ==
    [k \in DOMAIN metrics \cup DOMAIN measures |->
        IF k \in DOMAIN measures THEN measures[k] ELSE metrics[k]]

\* sorted(set(Y))
Classes(Y_) == SelectSeq(ClassOrder, LAMBDA c : c \in Range(Y_))

\* sum([Y[g_i] == class_ for g_i in extent_i])
RECURSIVE CountClass(_, _, _)
CountClass(class_, extent_i, Y_) ==
    IF Len(extent_i) = 0 THEN 0
    ELSE (IF Item(Y_, Head(extent_i)) = class_ THEN 1 ELSE 0)
         + CountClass(class_, Tail(extent_i), Y_)

calc_class_probability_ofAll(class_, extent_i, Y_) ==
    IF Len(extent_i) > 0
    THEN Some(Rat(CountClass(class_, extent_i, Y_), Len(Y_)))
    ELSE PyNone

calc_class_probability(class_, extent_i, Y_) ==
    IF Len(extent_i) > 0
    THEN Some(Rat(CountClass(class_, extent_i, Y_), Len(extent_i)))
    ELSE PyNone

\* [class_ for class_, prob in zip(classes, probs) if prob == max_prob]
MaxClasses(classes, probs, max_prob) ==
    LET ks == SelectSeq([k \in 1..Len(classes) |-> k], LAMBDA k : probs[k] = max_prob)
    IN [i \in 1..Len(ks) |-> classes[ks[i]]]

\* the value of max_class: the list, or its only element
OneClass(c) == [list |-> FALSE, classes |-> <<c>>]
ClassList(cs) == [list |-> TRUE, classes |-> cs]

Classifier_calc_concept_prediction_metrics_firstOnTie(extent_i, Y_) ==
    LET classes == Classes(Y_)
    IN IF Len(extent_i) > 0
       THEN LET class_probs ==
                    [k \in 1..Len(classes) |->
                        calc_class_probability(classes[k], extent_i, Y_).val]
                max_prob == RatMax(class_probs)
                max_class == MaxClasses(classes, class_probs, max_prob)
            IN [k \in {"class_probabilities", "most_probable_class",
                       "maximum_class_probability"} |->
                    CASE k = "class_probabilities" -> Some(class_probs)
                      [] k = "most_probable_class" -> Some(OneClass(max_class[1]))
                      [] k = "maximum_class_probability" -> Some(max_prob)]
       ELSE [k \in {"class_probabilities", "most_probable_class",
                    "maximum_class_probability"} |-> PyNone]

\* DecisionLatticeClassifier.calc_concept_prediction_metrics, given the extent
\* of concept c_i
Classifier_calc_concept_prediction_metrics(extent_i, Y_) ==
    LET classes == Classes(Y_)
    IN IF Len(extent_i) > 0
       THEN LET class_probs ==
                    [k \in 1..Len(classes) |->
                        calc_class_probability(classes[k], extent_i, Y_).val]
                max_prob == RatMax(class_probs)
                max_class == MaxClasses(classes, class_probs, max_prob)
            IN [k \in {"class_probabilities", "most_probable_class",
                       "maximum_class_probability"} |->
                    CASE k = "class_probabilities" -> Some(class_probs)
                      [] k = "most_probable_class" ->
                            Some(IF Len(max_class) = 1 THEN OneClass(max_class[1])
                                 ELSE ClassList(max_class))
                      [] k = "maximum_class_probability" -> Some(max_prob)]
       ELSE [k \in {"class_probabilities", "most_probable_class",
                    "maximum_class_probability"} |-> PyNone]

\* sum([Y[g_i] for g_i in extent_i])
RECURSIVE SumY(_, _)
SumY(extent_i, Y_) ==
    IF Len(extent_i) = 0 THEN 0
    ELSE Item(Y_, Head(extent_i)) + SumY(Tail(extent_i), Y_)

\* DecisionLatticeRegressor.calc_concept_prediction_metrics
Regressor_calc_concept_prediction_metrics(extent_i, Y_) ==
    [k \in {"mean_y"} |->
        IF Len(extent_i) # 0 THEN Some(Rat(SumY(extent_i, Y_), Len(extent_i)))
        ELSE PyNone]

\* DecisionLatticeClassifier.average_concepts_class_probabilities: zip(*...)
\* raises TypeError on a None among the predictions, and yields no row when
\* there is no prediction
average_concepts_class_probabilities(concepts, nClasses, concepts_i) ==
    LET predictions == [j \in 1..Len(concepts_i) |->
            Item(concepts, concepts_i[j]).measures["class_probabilities"]]
    IN IF \E j \in 1..Len(predictions) : predictions[j].none
       THEN Raise("TypeError", <<>>)
       ELSE IF Len(predictions) = 0 THEN Ok(<<>>)
       ELSE Ok([k \in 1..nClasses |->
                   RatDiv(RatSum([j \in 1..Len(predictions) |-> predictions[j].val[k]]),
                          Len(predictions))])

\* DecisionLatticeClassifier.average_concepts_predictions: max() raises
\* ValueError on an empty list
Classifier_average_concepts_predictions(concepts, class_names_, concepts_i) ==
    LET probs_per_class ==
            average_concepts_class_probabilities(concepts, Len(class_names_), concepts_i)
    IN IF probs_per_class.exc # "" THEN probs_per_class
       ELSE IF Len(probs_per_class.val) = 0 THEN Raise("ValueError", <<>>)
       ELSE LET max_prob == RatMax(probs_per_class.val)
                max_class == MaxClasses(class_names_, probs_per_class.val, max_prob)
            IN Ok(IF Len(max_class) = 1 THEN OneClass(max_class[1])
                  ELSE ClassList(max_class))

\* DecisionLatticeRegressor.average_concepts_predictions: sum() raises
\* TypeError on a None among the predictions
Regressor_average_concepts_predictions(concepts, concepts_i) ==
    LET predictions == [j \in 1..Len(concepts_i) |->
            Item(concepts, concepts_i[j]).measures["mean_y"]]
    IN IF Len(predictions) > 0
       THEN IF \E j \in 1..Len(predictions) : predictions[j].none
            THEN Raise("TypeError", <<>>)
            ELSE Ok(Some(RatDiv(RatSum([j \in 1..Len(predictions) |->
                                            predictions[j].val]),
                                Len(predictions))))
       ELSE Ok(PyNone)

\* [f(bottom_concepts[g_i]) for g_i in range(n_objects)]: the list, or the
\* exception of the first object that raises one
PerObject(per, nX) ==
    IF \E g \in 0..(nX - 1) : per[g].exc # ""
    THEN LET g == Min({h \in 0..(nX - 1) : per[h].exc # ""})
         IN Raise(per[g].exc, <<>>)
    ELSE Ok([k \in 1..nX |-> per[k - 1].val])

----------------------------------------------------------------------------
(* SpecDL: one predictor; fit, then predict / predict_proba.  predict and
   predict_proba leave the predictor as it is, so a behaviour is fit followed
   by one call of either. *)

\* DecisionLatticeClassifier() or DecisionLatticeRegressor():
\* DecisionLatticePredictor.__init__
InitDL ==
    /\ data = <<>>
    /\ call = ""
    /\ from = "caller"
    /\ object_indexes = <<>>
    /\ description = None
    /\ result = None
    /\ g_is = <<>>
    /\ generators = <<>>
    /\ exc = ""
    /\ ctx = [status |-> "none"]
    /\ mv_call = [op |-> ""]
    /\ model \in {"Classifier", "Regressor"}
    /\ lattice = <<>>
    /\ built = <<>>
    /\ class_names = <<>>
    /\ Y = <<>>
    /\ fitted = FALSE
    /\ pred = [op |-> ""]

\* DecisionLatticePredictor.fit on a DecisionLatticeClassifier.  A predictor is
\* fitted once.
FitClassifier ==
    /\ model = "Classifier"
    /\ ~fitted
    /\ \E n \in 1..MaxN :
       \E Y_ \in [1..n -> Range(ClassOrder)], concepts \in FromContext(n) :
          /\ lattice' = [c \in 1..Len(concepts) |->
                [extent_i |-> concepts[c].extent_i,
                 measures |-> MergeMeasures(
                     Classifier_calc_concept_prediction_metrics(concepts[c].extent_i, Y_),
                     concepts[c].measures)]]
          /\ built' = [c \in 1..Len(concepts) |-> concepts[c].measures]
          /\ class_names' = Classes(Y_)
          /\ Y' = Y_
    /\ fitted' = TRUE
    /\ UNCHANGED <<model, pred, psVars, mvVars>>

\* DecisionLatticePredictor.fit on a DecisionLatticeRegressor
FitRegressor ==
    /\ model = "Regressor"
    /\ ~fitted
    /\ \E n \in 1..MaxN :
       \E Y_ \in [1..n -> 0..MaxY], concepts \in FromContext(n) :
          /\ lattice' = [c \in 1..Len(concepts) |->
                [extent_i |-> concepts[c].extent_i,
                 measures |-> MergeMeasures(
                     Regressor_calc_concept_prediction_metrics(concepts[c].extent_i, Y_),
                     concepts[c].measures)]]
          /\ built' = [c \in 1..Len(concepts) |-> concepts[c].measures]
          /\ Y' = Y_
    /\ fitted' = TRUE
    /\ UNCHANGED <<model, class_names, pred, psVars, mvVars>>

\* DecisionLatticePredictor.predict on a DecisionLatticeClassifier
PredictClassifier ==
    /\ model = "Classifier"
    /\ fitted
    /\ pred.op = ""
    /\ \E nX \in 1..MaxX :
       \E bottom_concepts \in TraceContext(Len(lattice), nX) :
          LET r == PerObject(
                     [g \in 0..(nX - 1) |->
                         Classifier_average_concepts_predictions(
                             lattice, class_names, bottom_concepts[g])], nX)
          IN pred' = [op |-> "predict", bottom_concepts |-> bottom_concepts,
                      exc |-> r.exc, val |-> r.val]
    /\ UNCHANGED <<model, lattice, built, class_names, Y, fitted, psVars, mvVars>>

\* DecisionLatticeClassifier.predict_proba
PredictProba ==
    /\ model = "Classifier"
    /\ fitted
    /\ pred.op = ""
    /\ \E nX \in 1..MaxX :
       \E bottom_concepts \in TraceContext(Len(lattice), nX) :
          LET r == PerObject(
                     [g \in 0..(nX - 1) |->
                         average_concepts_class_probabilities(
                             lattice, Len(class_names), bottom_concepts[g])], nX)
          IN pred' = [op |-> "predict_proba", bottom_concepts |-> bottom_concepts,
                      exc |-> r.exc, val |-> r.val]
    /\ UNCHANGED <<model, lattice, built, class_names, Y, fitted, psVars, mvVars>>

\* DecisionLatticePredictor.predict on a DecisionLatticeRegressor
PredictRegressor ==
    /\ model = "Regressor"
    /\ fitted
    /\ pred.op = ""
    /\ \E nX \in 1..MaxX :
       \E bottom_concepts \in TraceContext(Len(lattice), nX) :
          LET r == PerObject(
                     [g \in 0..(nX - 1) |->
                         Regressor_average_concepts_predictions(
                             lattice, bottom_concepts[g])], nX)
          IN pred' = [op |-> "predict", bottom_concepts |-> bottom_concepts,
                      exc |-> r.exc, val |-> r.val]
    /\ UNCHANGED <<model, lattice, built, class_names, Y, fitted, psVars, mvVars>>

DlNext ==
    \/ FitClassifier
    \/ FitRegressor
    \/ PredictClassifier
    \/ PredictProba
    \/ PredictRegressor

----------------------------------------------------------------------------
(* Specifications *)

SpecPS == InitPS /\ [][PsNext]_vars

SpecMV == InitMV /\ [][MvNext]_vars

SpecDL == InitDL /\ [][DlNext]_vars

SpecGen == InitGen /\ [][GenNext]_vars

----------------------------------------------------------------------------
(* Claims about IntervalPS *)

\* C1 (Galois closure of IntervalPS): for every data sequence and every
\* non-empty sequence S of valid object indices, extension_i(intention_i(S))
\* contains every index of S.
C1_GaloisClosure ==
    (call = "extension_i" /\ from = "intention_i" /\ Len(object_indexes) > 0)
        => Range(object_indexes) \subseteq Range(g_is)

\* C1 witness: extension_i was applied to the range intention_i returned for
\* two objects with different values, and gave back more than those objects.
C1_Witness ==
    /\ call = "extension_i" /\ from = "intention_i"
    /\ Len(object_indexes) = 2
    /\ description.kind = "range"
    /\ Cardinality(Range(g_is)) > Cardinality(Range(object_indexes))

\* C2 as stated (interval round-trip): for every interval description d, a point
\* p or a range (min, max) with min <= max, min == max included,
\* generators_to_description(description_to_generators(d)) equals d.
C2_RoundTripAsStated ==
    (call = "generators_to_description" /\ from = "description_to_generators")
        => (exc = "" /\ result = description)

\* C2 amended: the round trip returns d when d is a point or a range with
\* min < max, and returns the point min when d is the range (min, max) with
\* min == max; it never raises.
C2_RoundTrip ==
    (call = "generators_to_description" /\ from = "description_to_generators")
        => /\ exc = ""
           /\ (description.kind = "point" \/ description.lo < description.hi)
                 => result = description
           /\ (description.kind = "range" /\ description.lo = description.hi)
                 => result = Point(description.lo)

\* C2 witness: the round trip of a proper range with finite bounds was taken.
C2_Witness ==
    /\ call = "generators_to_description" /\ from = "description_to_generators"
    /\ description.kind = "range"
    /\ NegInf < description.lo /\ description.lo < description.hi
    /\ description.hi < PosInf
    /\ result = description

\* C9 (generators_to_description): for every non-empty sequence of generators,
\* with L the maximum of the lower bounds and U the minimum of the upper bounds,
\* the call fails exactly when L > U, returns the point L when L == U and the
\* range (L, U) when L < U.
C9_GeneratorsToDescription ==
    (call = "generators_to_description") =>
        LET L == Max({generators[k].lo : k \in 1..Len(generators)})
            U == Min({generators[k].hi : k \in 1..Len(generators)})
        IN /\ (exc # "") <=> (L > U)
           /\ (exc # "") => exc = "AssertionError"
           /\ (L = U) => result = Point(L)
           /\ (L < U) => result = Tuple(L, U)

\* C9 witness: two generators, a point and a range, whose bounds are inverted
\* only once they are aggregated, made the call fail.
C9_Witness ==
    /\ call = "generators_to_description" /\ from = "caller"
    /\ Len(generators) = 2
    /\ generators[1].kind = "point" /\ generators[2].kind = "range"
    /\ generators[2].lo <= generators[2].hi
    /\ exc = "AssertionError"

----------------------------------------------------------------------------
(* Claims about MVContext *)

\* the dict {name: d} restricted to one key
Only(descriptions, name) == [k \in {name} |-> descriptions[k]]

\* C3 (conjunctive extension of MVContext): for two attributes A and B and any
\* descriptions a, b, extension({A: a, B: b}) contains exactly the object names
\* that are in both extension({A: a}) and extension({B: b}); with no
\* descriptions supplied, extension returns all object names.
C3_ConjunctiveExtension ==
    (ctx.status = "ok" /\ mv_call.op = "extension") =>
        /\ \A A, B \in DOMAIN mv_call.descriptions :
              (A # B /\ DOMAIN mv_call.descriptions = {A, B}) =>
                 Range(mv_call.ret) =
                    Range(MVContext_extension(ctx, Only(mv_call.descriptions, A)))
                    \cap
                    Range(MVContext_extension(ctx, Only(mv_call.descriptions, B)))
        /\ (DOMAIN mv_call.descriptions = {}) =>
              Range(mv_call.ret) = Range(ctx.object_names)

\* the names in ns are pairwise different strs
UniqueStrs(ns) ==
    /\ \A k \in 1..Len(ns) : IsStr(ns[k])
    /\ \A i, j \in 1..Len(ns) : i # j => ns[i] # ns[j]

\* C8 (construction validation of MVContext): construction fails whenever a
\* name count differs from the data shape, a name is not a string, a name is
\* duplicated within its list, or an attribute name has no declared pattern
\* type; hence every constructed MVContext has n unique string object names,
\* m unique string attribute names and exactly one pattern structure per
\* attribute name.
C8_ConstructionValidation ==
    /\ (ctx.status # "none") =>
          LET a == ctx.args
              listed(v) == ~v.none
              miscounted(v, n) == listed(v) /\ Len(v.names) # n
              nonString(v) == listed(v) /\ \E k \in 1..Len(v.names) : ~IsStr(v.names[k])
              duplicated(v) == listed(v) /\ Cardinality(Range(v.names)) # Len(v.names)
              attrs == IF a.attribute_names.none THEN DefaultNames(a.m)
                       ELSE a.attribute_names.names
              untyped == \E k \in 1..Len(attrs) :
                            \/ a.pattern_types.none
                            \/ \A t \in 1..Len(a.pattern_types.keys) :
                                  attrs[k] \notin Range(a.pattern_types.keys[t].names)
          IN (\/ miscounted(a.object_names, a.n) \/ miscounted(a.attribute_names, a.m)
              \/ nonString(a.object_names) \/ nonString(a.attribute_names)
              \/ duplicated(a.object_names) \/ duplicated(a.attribute_names)
              \/ untyped)
                => ctx.status = "error"
    /\ (ctx.status = "ok") =>
          /\ Len(ctx.object_names) = ctx.n_objects
          /\ UniqueStrs(ctx.object_names)
          /\ Len(ctx.attribute_names) = ctx.n_attributes
          /\ UniqueStrs(ctx.attribute_names)
          /\ \A k \in 1..Len(ctx.attribute_names) :
                Cardinality({p \in 1..Len(ctx.pattern_structures) :
                    ctx.pattern_structures[p].name = ctx.attribute_names[k]}) = 1

----------------------------------------------------------------------------
(* Claims about the decision lattice predictors *)

\* the classes whose probability no other class exceeds
TopClasses(classes, probs) ==
    {classes[k] : k \in {i \in 1..Len(classes) :
                            \A j \in 1..Len(classes) : RatLeq(probs[j], probs[i])}}

\* the single/tie rule: value is the class itself when one class attains the
\* maximum, and otherwise the list of all the classes attaining it
TieRule(classes, probs, value) ==
    LET top == TopClasses(classes, probs)
    IN IF Cardinality(top) = 1
       THEN value = OneClass(CHOOSE c \in top : TRUE)
       ELSE /\ value.list
            /\ Range(value.classes) = top
            /\ Len(value.classes) = Cardinality(top)

\* C4 (classifier tie rule): for every concept with a non-empty extent, after
\* fit maximum_class_probability is the maximum of the per-class probabilities
\* and most_probable_class follows the single/tie rule; predict applies the
\* same rule to the averaged probability vector of the traced concepts.
C4_TieRule ==
    /\ (model = "Classifier" /\ fitted) =>
          \A c \in 1..Len(lattice) :
             Len(lattice[c].extent_i) > 0 =>
                LET m == lattice[c].measures
                    probs == m["class_probabilities"].val
                IN /\ ~m["maximum_class_probability"].none
                   /\ m["maximum_class_probability"].val \in Range(probs)
                   /\ \A k \in 1..Len(probs) :
                         RatLeq(probs[k], m["maximum_class_probability"].val)
                   /\ ~m["most_probable_class"].none
                   /\ TieRule(class_names, probs, m["most_probable_class"].val)
    /\ (model = "Classifier" /\ pred.op = "predict" /\ pred.exc = "") =>
          \A g \in DOMAIN pred.bottom_concepts :
             LET avg == average_concepts_class_probabilities(
                            lattice, Len(class_names), pred.bottom_concepts[g])
             IN TieRule(class_names, avg.val, pred.val[g + 1])

\* C4 witness: fit stored a tie of two classes for one concept, and predict
\* averaged that concept with another one and returned a single class.
C4_Witness ==
    /\ model = "Classifier" /\ pred.op = "predict" /\ pred.exc = ""
    /\ \E c \in 1..Len(lattice) :
          /\ ~lattice[c].measures["most_probable_class"].none
          /\ lattice[c].measures["most_probable_class"].val.list
          /\ (c - 1) \in Range(pred.bottom_concepts[0])
    /\ Len(pred.bottom_concepts[0]) = 2
    /\ ~pred.val[1].list

\* the number of objects of the extent whose label is class_
LabelCount(extent_i, class_) ==
    Cardinality({j \in 1..Len(extent_i) : Item(Y, extent_i[j]) = class_})

RECURSIVE SumOver(_, _)
SumOver(f, S) ==
    IF S = {} THEN 0
    ELSE LET x == CHOOSE y \in S : TRUE IN f[x] + SumOver(f, S \ {x})

\* C5 (probability normalization): after fit, for every concept whose extent is
\* non-empty, each entry of class_probabilities is (number of extent objects
\* with that class) / |extent|, and the entries sum to 1 over the observed
\* classes (the per-class counts sum to |extent|).
C5_Normalization ==
    (model = "Classifier" /\ fitted) =>
       \A c \in 1..Len(lattice) :
          LET extent_i == lattice[c].extent_i
              cp == lattice[c].measures["class_probabilities"]
          IN Len(extent_i) > 0 =>
                /\ ~cp.none
                /\ Len(cp.val) = Len(class_names)
                /\ Range(class_names) = Range(Y)
                /\ \A k \in 1..Len(class_names) :
                      cp.val[k].num * Len(extent_i) =
                          LabelCount(extent_i, class_names[k]) * cp.val[k].den
                /\ RatSum(cp.val) = [num |-> 1, den |-> 1]
                /\ SumOver([k \in 1..Len(class_names) |->
                               LabelCount(extent_i, class_names[k])],
                           1..Len(class_names)) = Len(extent_i)

\* C5 witness: a concept of two objects with different labels got the
\* probabilities 1/2 and 1/2.
C5_Witness ==
    /\ model = "Classifier" /\ fitted
    /\ \E c \in 1..Len(lattice) :
          /\ Len(lattice[c].extent_i) = 2
          /\ ~lattice[c].measures["class_probabilities"].none
          /\ \A k \in 1..Len(class_names) :
                lattice[c].measures["class_probabilities"].val[k]
                    = [num |-> 1, den |-> 2]

\* C6 (absent-value propagation in the regressor): after fit a concept with an
\* empty extent has mean_y = None, and predict, for an object whose traced
\* concepts all have mean_y = None, yields None for that object, not 0 and not
\* an error.
C6_AbsentPropagates ==
    /\ (model = "Regressor" /\ fitted) =>
          \A c \in 1..Len(lattice) :
             Len(lattice[c].extent_i) = 0 => lattice[c].measures["mean_y"] = PyNone
    /\ (model = "Regressor" /\ pred.op = "predict") =>
          \A g \in DOMAIN pred.bottom_concepts :
             (\A j \in 1..Len(pred.bottom_concepts[g]) :
                 Item(lattice, pred.bottom_concepts[g][j]).measures["mean_y"] = PyNone)
             => (pred.exc = "" /\ pred.val[g + 1] = PyNone)

\* C7 (zero traced concepts is an error): when the Tracer returns an empty
\* list of bottom concepts for an object, predict (classifier and regressor)
\* and predict_proba end in an error.
C7_ZeroTracedIsError ==
    (pred.op \in {"predict", "predict_proba"}) =>
       ((\E g \in DOMAIN pred.bottom_concepts : Len(pred.bottom_concepts[g]) = 0)
           => pred.exc # "")

\* the prediction metrics of concept c, computed from the labels of its extent
Metrics(c) ==
    IF model = "Classifier"
    THEN Classifier_calc_concept_prediction_metrics(lattice[c].extent_i, Y)
    ELSE Regressor_calc_concept_prediction_metrics(lattice[c].extent_i, Y)

====
